---- MODULE Spec2Model ----
(***************************************************************************)
(* Product registry of src/main.go: an in-memory map of products guarded   *)
(* by one sync.RWMutex, read by getProduct and written by                  *)
(* addProductDetails after validateProduct.                                *)
(*                                                                         *)
(* A Go string is a sequence of bytes and len() its length: strings are    *)
(* sequences of one-byte strings here, and len() is Len.                   *)
(* A request handler is a process h; pc[h] is its position in the handler. *)
(***************************************************************************)
EXTENDS Integers, Sequences, FiniteSets, TLC

VARIABLES
    products,   \* the map[int]Product
    mu,         \* the sync.RWMutex guarding products
    pc,         \* pc[h]: position of handler h
    req,        \* req[h]: the HTTP request handler h is serving
    local,      \* local[h]: the handler's local variables
    resp,       \* resp[h]: the HTTP response written by handler h
    obs,        \* history: what had been committed at the id when h looked it up
    amap,       \* history: the registry as a plain sequential map of candidates
    committed,  \* history: every <<id, candidate>> some Put has committed
    prev        \* history: the last exchange the remembering client completed, and
                \* the registry as it was when that exchange ended

vars == <<products, mu, pc, req, local, resp, obs, amap, committed, prev>>

----------------------------------------------------------------------------
(* Bounds of the model *)

\* number of concurrently running request handlers
NumProcs == 2
\* the single client uses the product ids 1..MaxId (and ids below 1)
MaxId == 2

(* Program constants *)
MaxSkuLen == 100
MaxManufacturerLen == 200
StatusOK == 200
StatusNoContent == 204
StatusBadRequest == 400
StatusNotFound == 404

Procs == 1..NumProcs
NoProc == 0

----------------------------------------------------------------------------
(* Strings *)

MkStr(c, n) == [i \in 1..n |-> c]

DigitChars == <<"0", "1", "2", "3", "4", "5", "6", "7", "8", "9">>

IsDigit(c) == \E d \in 1..10 : DigitChars[d] = c

DigitVal(c) == (CHOOSE d \in 1..10 : DigitChars[d] = c) - 1

RECURSIVE NatVal(_)
NatVal(ds) ==
    IF Len(ds) = 0 THEN 0
    ELSE 10 * NatVal(SubSeq(ds, 1, Len(ds) - 1)) + DigitVal(ds[Len(ds)])

\* strconv.Atoi: optional sign, then one or more decimal digits
Atoi(s) ==
    LET signed == Len(s) > 0 /\ s[1] \in {"+", "-"}
        ds == IF signed THEN Tail(s) ELSE s
    IN  IF Len(ds) = 0 \/ \E i \in 1..Len(ds) : ~IsDigit(ds[i])
        THEN [err |-> TRUE, val |-> 0]
        ELSE [err |-> FALSE,
              val |-> IF signed /\ s[1] = "-" THEN 0 - NatVal(ds) ELSE NatVal(ds)]

RECURSIVE NatStr(_)
NatStr(n) ==
    IF n < 10 THEN <<DigitChars[n + 1]>>
    ELSE NatStr(n \div 10) \o <<DigitChars[(n % 10) + 1]>>

\* strconv.Itoa
Itoa(n) == IF n < 0 THEN <<"-">> \o NatStr(0 - n) ELSE NatStr(n)

----------------------------------------------------------------------------
(* Product and its validation *)

Product(id, sku, manufacturer, category, weight, other) ==
    [ProductID |-> id, SKU |-> sku, Manufacturer |-> manufacturer,
     CategoryID |-> category, Weight |-> weight, SomeOtherID |-> other]

\* the zero value of the struct: var p Product, and a lookup that misses
ZeroProduct == Product(0, <<>>, <<>>, 0, 0, 0)

\* validateProduct without the weight rule
validateProductNoWeight(p) ==
    IF p.ProductID < 1 THEN "product_id must be >= 1"
    ELSE IF Len(p.SKU) = 0 \/ Len(p.SKU) > MaxSkuLen
         THEN "sku must be between 1 and 100 characters"
    ELSE IF Len(p.Manufacturer) = 0 \/ Len(p.Manufacturer) > MaxManufacturerLen
         THEN "manufacturer must be between 1 and 200 characters"
    ELSE IF p.CategoryID < 1 THEN "category_id must be >= 1"
    ELSE IF p.SomeOtherID < 1 THEN "some_other_id must be >= 1"
    ELSE ""

\* validateProduct with the manufacturer rule tried before the sku rule
validateProductSwapped(p) ==
    IF p.ProductID < 1 THEN "product_id must be >= 1"
    ELSE IF Len(p.Manufacturer) = 0 \/ Len(p.Manufacturer) > MaxManufacturerLen
         THEN "manufacturer must be between 1 and 200 characters"
    ELSE IF Len(p.SKU) = 0 \/ Len(p.SKU) > MaxSkuLen
         THEN "sku must be between 1 and 100 characters"
    ELSE IF p.CategoryID < 1 THEN "category_id must be >= 1"
    ELSE IF p.Weight < 0 THEN "weight must be >= 0"
    ELSE IF p.SomeOtherID < 1 THEN "some_other_id must be >= 1"
    ELSE ""

\* validateProduct with the upper sku limit exclusive
validateProductOffByOne(p) ==
    IF p.ProductID < 1 THEN "product_id must be >= 1"
    ELSE IF Len(p.SKU) = 0 \/ Len(p.SKU) >= MaxSkuLen
         THEN "sku must be between 1 and 100 characters"
    ELSE IF Len(p.Manufacturer) = 0 \/ Len(p.Manufacturer) > MaxManufacturerLen
         THEN "manufacturer must be between 1 and 200 characters"
    ELSE IF p.CategoryID < 1 THEN "category_id must be >= 1"
    ELSE IF p.Weight < 0 THEN "weight must be >= 0"
    ELSE IF p.SomeOtherID < 1 THEN "some_other_id must be >= 1"
    ELSE ""

\* the six rules of validateProduct, in the order of the source
validateProduct(p) ==
    IF p.ProductID < 1 THEN "product_id must be >= 1"
    ELSE IF Len(p.SKU) = 0 \/ Len(p.SKU) > MaxSkuLen
         THEN "sku must be between 1 and 100 characters"
    ELSE IF Len(p.Manufacturer) = 0 \/ Len(p.Manufacturer) > MaxManufacturerLen
         THEN "manufacturer must be between 1 and 200 characters"
    ELSE IF p.CategoryID < 1 THEN "category_id must be >= 1"
    ELSE IF p.Weight < 0 THEN "weight must be >= 0"
    ELSE IF p.SomeOtherID < 1 THEN "some_other_id must be >= 1"
    ELSE ""

----------------------------------------------------------------------------
(* JSON request bodies and their decoding *)

FieldNames == {"ProductID", "SKU", "Manufacturer", "CategoryID", "Weight", "SomeOtherID"}

\* a JSON value of a member: a number, a string, or the member is absent
JNum(n) == [t |-> "num", n |-> n, s |-> <<>>]
JStr(s) == [t |-> "str", n |-> 0, s |-> s]
JAbsent == [t |-> "absent", n |-> 0, s |-> <<>>]

\* a body that is a JSON object with the six members
JObject(id, sku, manufacturer, category, weight, other) ==
    [kind |-> "object",
     f |-> [ProductID |-> id, SKU |-> sku, Manufacturer |-> manufacturer,
            CategoryID |-> category, Weight |-> weight, SomeOtherID |-> other]]

\* a body that is not JSON at all
Malformed == [kind |-> "malformed", f |-> [x \in FieldNames |-> JAbsent]]

\* no body: a GET request
NoBody == [kind |-> "none", f |-> [x \in FieldNames |-> JAbsent]]

\* encoding/json into an int field: absent leaves the zero value
IntField(v) == IF v.t = "num" THEN v.n ELSE 0

\* encoding/json into a string field: absent leaves the zero value
StringField(v) == IF v.t = "str" THEN v.s ELSE <<>>

\* ShouldBindJSON for a struct whose weight tag does not match the member name
ShouldBindJSONDropWeight(body) ==
    LET f == body.f
    IN  IF body.kind # "object" \/ \E x \in {"ProductID", "CategoryID", "SomeOtherID"} : f[x].t = "str"
           \/ \E y \in {"SKU", "Manufacturer"} : f[y].t = "num"
        THEN [err |-> "decode error", p |-> ZeroProduct]
        ELSE [err |-> "",
              p |-> Product(IntField(f.ProductID), StringField(f.SKU),
                            StringField(f.Manufacturer), IntField(f.CategoryID),
                            0, IntField(f.SomeOtherID))]

\* c.ShouldBindJSON(&p): the decoded struct and the error ("" for nil)
ShouldBindJSON(body) ==
    LET f == body.f
        badInt == {x \in {"ProductID", "CategoryID", "Weight", "SomeOtherID"} : f[x].t = "str"}
        badStr == {x \in {"SKU", "Manufacturer"} : f[x].t = "num"}
    IN  IF body.kind # "object"
        THEN [err |-> "invalid character looking for beginning of value", p |-> ZeroProduct]
        ELSE IF badInt # {}
        THEN [err |-> "json: cannot unmarshal string into Go struct field of type int",
              p |-> ZeroProduct]
        ELSE IF badStr # {}
        THEN [err |-> "json: cannot unmarshal number into Go struct field of type string",
              p |-> ZeroProduct]
        ELSE [err |-> "",
              p |-> Product(IntField(f.ProductID), StringField(f.SKU),
                            StringField(f.Manufacturer), IntField(f.CategoryID),
                            IntField(f.Weight), IntField(f.SomeOtherID))]

----------------------------------------------------------------------------
(* Responses *)

NoPayload == ZeroProduct

\* c.JSON(status, ErrorResponse{Error, Message, Details})
ErrorResponse(status, error, message, details) ==
    [status |-> status, error |-> error, message |-> message,
     details |-> details, payload |-> NoPayload]

\* c.JSON(http.StatusOK, product)
ProductResponse(product) ==
    [status |-> StatusOK, error |-> "", message |-> "", details |-> <<>>,
     payload |-> product]

\* c.Status(http.StatusNoContent)
NoContentResponse ==
    [status |-> StatusNoContent, error |-> "", message |-> "", details |-> <<>>,
     payload |-> NoPayload]

\* nothing written yet
NoResponse ==
    [status |-> 0, error |-> "", message |-> "", details |-> <<>>, payload |-> NoPayload]

----------------------------------------------------------------------------
(* The map and the mutex *)

\* a lookup whose second result is not the presence of the key
MapLookupAlwaysExists(m, k) ==
    [product |-> IF k \in DOMAIN m THEN m[k] ELSE ZeroProduct, exists |-> TRUE]

\* product, exists := products[productID]
MapLookup(m, k) ==
    IF k \in DOMAIN m THEN [product |-> m[k], exists |-> TRUE]
    ELSE [product |-> ZeroProduct, exists |-> FALSE]

\* a store that only inserts: an existing entry stays
MapStoreKeepFirst(m, k, v) ==
    IF k \in DOMAIN m THEN m ELSE [x \in (DOMAIN m) \cup {k} |-> IF x = k THEN v ELSE m[x]]

\* a store that updates an existing entry member by member and leaves the sku
MapStoreMerge(m, k, v) ==
    [x \in (DOMAIN m) \cup {k} |->
        IF x # k THEN m[x]
        ELSE IF k \in DOMAIN m THEN [v EXCEPT !.SKU = m[k].SKU]
        ELSE v]

\* a store that replaces the whole map by the one new entry
MapStoreFresh(m, k, v) == [x \in {k} |-> v]

\* a store that assigns the record to every key
MapStoreAll(m, k, v) == [x \in (DOMAIN m) \cup {k} |-> v]

\* products[productID] = p
MapStore(m, k, v) == [x \in (DOMAIN m) \cup {k} |-> IF x = k THEN v ELSE m[x]]

EmptyMap == [x \in {} |-> ZeroProduct]

\* sync.RWMutex: w is the handler inside Lock() (it holds the inner mutex and has
\* announced itself to the readers), writer the handler holding exclusive access,
\* readers the handlers holding shared access, rqueue the handlers whose RLock()
\* waits for the writer to unlock.
Unlocked == [w |-> NoProc, writer |-> NoProc, readers |-> {}, rqueue |-> {}]

\* an RLock() that does not look for a writer
RLockAdmitsAlways(m) == TRUE

\* RLock() returns at once unless a writer has announced itself
RLockAdmits(m) == m.w = NoProc

\* Lock() gets past the inner mutex when no other writer is inside Lock()
LockEnters(m) == m.w = NoProc

\* Lock() returns when the readers that held shared access have all left
LockGranted(m, h) == m.w = h /\ m.readers = {}

\* the path check with the limit off by one
BadProductIDNegative(r) == r.err \/ r.val < 0

\* productID, err := strconv.Atoi(...); if err != nil || productID < 1
BadProductID(r) == r.err \/ r.val < 1

\* the handler without the comparison of path id and body id
MismatchNever(p, productID) == FALSE

\* if p.ProductID != productID
Mismatch(p, productID) == p.ProductID # productID

----------------------------------------------------------------------------
(* Handler state *)

NoRequest == [op |-> "none", path |-> <<>>, body |-> NoBody]

NoLocal == [productID |-> 0, p |-> ZeroProduct, product |-> ZeroProduct, exists |-> FALSE]

NoObs == [taken |-> FALSE, present |-> FALSE, p |-> ZeroProduct, seen |-> {}]

NoExchange == [req |-> NoRequest, resp |-> NoResponse, products |-> EmptyMap]

\* the Product a JSON object spells out, member by member
Candidate(body) ==
    Product(body.f.ProductID.n, body.f.SKU.s, body.f.Manufacturer.s,
            body.f.CategoryID.n, body.f.Weight.n, body.f.SomeOtherID.n)

Init ==
    /\ products = EmptyMap
    /\ mu = Unlocked
    /\ pc = [h \in Procs |-> "idle"]
    /\ req = [h \in Procs |-> NoRequest]
    /\ local = [h \in Procs |-> NoLocal]
    /\ resp = [h \in Procs |-> NoResponse]
    /\ obs = [h \in Procs |-> NoObs]
    /\ amap = EmptyMap
    /\ committed = {}
    /\ prev = NoExchange

----------------------------------------------------------------------------
(* getProduct *)

\* lines 52-62: parse and validate the path parameter
GetBegin(h, path) ==
    /\ pc[h] = "idle"
    /\ req' = [req EXCEPT ![h] = [op |-> "get", path |-> path, body |-> NoBody]]
    /\ LET r == Atoi(path)
       IN  IF BadProductID(r)
           THEN /\ resp' = [resp EXCEPT ![h] =
                       ErrorResponse(StatusBadRequest, "INVALID_INPUT", "Invalid product ID",
                                     <<"Product ID must be a positive integer">>)]
                /\ pc' = [pc EXCEPT ![h] = "done"]
                /\ local' = local
           ELSE /\ local' = [local EXCEPT ![h].productID = r.val]
                /\ pc' = [pc EXCEPT ![h] = "g_rlock"]
                /\ resp' = resp
    /\ UNCHANGED <<products, mu, obs, amap, committed, prev>>

\* line 65: mu.RLock()
RLock(h) ==
    /\ pc[h] = "g_rlock"
    /\ IF RLockAdmits(mu)
       THEN /\ mu' = [mu EXCEPT !.readers = @ \cup {h}]
            /\ pc' = [pc EXCEPT ![h] = "g_lookup"]
       ELSE /\ mu' = [mu EXCEPT !.rqueue = @ \cup {h}]
            /\ pc' = [pc EXCEPT ![h] = "g_rblocked"]
    /\ UNCHANGED <<products, req, local, resp, obs, amap, committed, prev>>

\* line 66: product, exists := products[productID]
Lookup(h) ==
    /\ pc[h] = "g_lookup"
    /\ LET r == MapLookup(products, local[h].productID)
       IN  local' = [local EXCEPT ![h].product = r.product, ![h].exists = r.exists]
    /\ obs' = [obs EXCEPT ![h] =
                 LET k == Atoi(req[h].path).val
                 IN  [taken |-> TRUE, present |-> k \in DOMAIN amap,
                      p |-> IF k \in DOMAIN amap THEN amap[k] ELSE ZeroProduct,
                      seen |-> {c[2] : c \in {d \in committed : d[1] = k}}]]
    /\ pc' = [pc EXCEPT ![h] = "g_runlock"]
    /\ UNCHANGED <<products, mu, req, resp, amap, committed, prev>>

\* line 67: mu.RUnlock()
RUnlock(h) ==
    /\ pc[h] = "g_runlock"
    /\ mu' = [mu EXCEPT !.readers = @ \ {h}]
    /\ pc' = [pc EXCEPT ![h] = "g_respond"]
    /\ UNCHANGED <<products, req, local, resp, obs, amap, committed, prev>>

\* a handler that answers from the map as it is when the response is written
GetRespondRereads(h) ==
    /\ pc[h] = "g_respond"
    /\ resp' = [resp EXCEPT ![h] =
                  IF local[h].productID \notin DOMAIN products
                  THEN ErrorResponse(StatusNotFound, "NOT_FOUND", "Product not found",
                                     <<"No product found with ID ">> \o Itoa(local[h].productID))
                  ELSE ProductResponse(products[local[h].productID])]
    /\ pc' = [pc EXCEPT ![h] = "done"]
    /\ UNCHANGED <<products, mu, req, local, obs, amap, committed, prev>>

\* lines 69-78: 404 or 200
GetRespond(h) ==
    /\ pc[h] = "g_respond"
    /\ resp' = [resp EXCEPT ![h] =
                  IF ~local[h].exists
                  THEN ErrorResponse(StatusNotFound, "NOT_FOUND", "Product not found",
                                     <<"No product found with ID ">> \o Itoa(local[h].productID))
                  ELSE ProductResponse(local[h].product)]
    /\ pc' = [pc EXCEPT ![h] = "done"]
    /\ UNCHANGED <<products, mu, req, local, obs, amap, committed, prev>>

----------------------------------------------------------------------------
(* addProductDetails *)

\* a handler that takes the write lock on entry and validates under it
PutBeginLocksFirst(h, path) ==
    /\ pc[h] = "idle"
    /\ mu.w = NoProc /\ mu.readers = {}
    /\ mu' = [mu EXCEPT !.w = h, !.writer = h]
    /\ req' = [req EXCEPT ![h] = [op |-> "put", path |-> path, body |-> NoBody]]
    /\ local' = [local EXCEPT ![h].productID = Atoi(path).val]
    /\ pc' = [pc EXCEPT ![h] = "p_bind"]
    /\ UNCHANGED <<products, resp, obs, amap, committed, prev>>

\* lines 83-93: parse and validate the path parameter
PutBegin(h, path) ==
    /\ pc[h] = "idle"
    /\ req' = [req EXCEPT ![h] = [op |-> "put", path |-> path, body |-> NoBody]]
    /\ LET r == Atoi(path)
       IN  IF BadProductID(r)
           THEN /\ resp' = [resp EXCEPT ![h] =
                       ErrorResponse(StatusBadRequest, "INVALID_INPUT",
                                     "Invalid product ID in path",
                                     <<"Product ID must be a positive integer">>)]
                /\ pc' = [pc EXCEPT ![h] = "done"]
                /\ local' = local
           ELSE /\ local' = [local EXCEPT ![h].productID = r.val]
                /\ pc' = [pc EXCEPT ![h] = "p_bind"]
                /\ resp' = resp
    /\ UNCHANGED <<products, mu, obs, amap, committed, prev>>

\* lines 95-124: bind the body, validate the fields, compare with the path id
PutBind(h, body) ==
    /\ pc[h] = "p_bind"
    /\ req' = [req EXCEPT ![h].body = body]
    /\ LET b == ShouldBindJSON(body)
           err == validateProduct(b.p)
       IN  IF b.err # ""
           THEN /\ resp' = [resp EXCEPT ![h] =
                       ErrorResponse(StatusBadRequest, "INVALID_INPUT",
                                     "Invalid request body", <<b.err>>)]
                /\ pc' = [pc EXCEPT ![h] = "done"]
                /\ local' = local
           ELSE IF err # ""
           THEN /\ resp' = [resp EXCEPT ![h] =
                       ErrorResponse(StatusBadRequest, "INVALID_INPUT",
                                     "Validation failed", <<err>>)]
                /\ pc' = [pc EXCEPT ![h] = "done"]
                /\ local' = local
           ELSE IF Mismatch(b.p, local[h].productID)
           THEN /\ resp' = [resp EXCEPT ![h] =
                       ErrorResponse(StatusBadRequest, "INVALID_INPUT",
                                     "Product ID mismatch",
                                     <<"Path product ID does not match body product_id">>)]
                /\ pc' = [pc EXCEPT ![h] = "done"]
                /\ local' = local
           ELSE /\ local' = [local EXCEPT ![h].p = b.p]
                /\ pc' = [pc EXCEPT ![h] = "p_lock"]
                /\ resp' = resp
    /\ UNCHANGED <<products, mu, obs, amap, committed, prev>>

\* line 127: mu.Lock() gets the inner mutex and announces the writer
Lock(h) ==
    /\ pc[h] = "p_lock"
    /\ LockEnters(mu)
    /\ mu' = [mu EXCEPT !.w = h]
    /\ pc' = [pc EXCEPT ![h] = "p_lockwait"]
    /\ UNCHANGED <<products, req, local, resp, obs, amap, committed, prev>>

\* line 127: mu.Lock() returns once the readers have left
LockAcquire(h) ==
    /\ pc[h] = "p_lockwait"
    /\ LockGranted(mu, h)
    /\ mu' = [mu EXCEPT !.writer = h]
    /\ pc' = [pc EXCEPT ![h] = "p_store"]
    /\ UNCHANGED <<products, req, local, resp, obs, amap, committed, prev>>

\* line 128: products[productID] = p
Store(h) ==
    /\ pc[h] = "p_store"
    /\ products' = MapStore(products, local[h].productID, local[h].p)
    /\ LET k == Atoi(req[h].path).val
           c == Candidate(req[h].body)
       IN  /\ amap' = [x \in (DOMAIN amap) \cup {k} |-> IF x = k THEN c ELSE amap[x]]
           /\ committed' = committed \cup {<<k, c>>}
    /\ pc' = [pc EXCEPT ![h] = "p_unlock"]
    /\ UNCHANGED <<mu, req, local, resp, obs, prev>>

\* an Unlock() that does not wake the readers that waited for it
UnlockKeepsQueue(h) ==
    /\ pc[h] = "p_unlock"
    /\ mu' = [mu EXCEPT !.w = NoProc, !.writer = NoProc]
    /\ pc' = [pc EXCEPT ![h] = "p_respond"]
    /\ UNCHANGED <<products, req, local, resp, obs, amap, committed, prev>>

\* line 129: mu.Unlock() lets in the readers that waited for it
Unlock(h) ==
    /\ pc[h] = "p_unlock"
    /\ mu' = [w |-> NoProc, writer |-> NoProc, readers |-> mu.rqueue, rqueue |-> {}]
    /\ pc' = [x \in Procs |->
                IF x = h THEN "p_respond"
                ELSE IF x \in mu.rqueue THEN "g_lookup"
                ELSE pc[x]]
    /\ UNCHANGED <<products, req, local, resp, obs, amap, committed, prev>>

\* lines 131-132: 204
PutRespond(h) ==
    /\ pc[h] = "p_respond"
    /\ resp' = [resp EXCEPT ![h] = NoContentResponse]
    /\ pc' = [pc EXCEPT ![h] = "done"]
    /\ UNCHANGED <<products, mu, req, local, obs, amap, committed, prev>>

----------------------------------------------------------------------------
(* The handler returns; gin serves the next request with fresh locals *)

Return(h) ==
    /\ pc[h] = "done"
    /\ pc' = [pc EXCEPT ![h] = "idle"]
    /\ req' = [req EXCEPT ![h] = NoRequest]
    /\ local' = [local EXCEPT ![h] = NoLocal]
    /\ resp' = [resp EXCEPT ![h] = NoResponse]
    /\ obs' = [obs EXCEPT ![h] = NoObs]
    /\ UNCHANGED <<products, mu, amap, committed, prev>>

\* the same, seen from a client that remembers the exchange
ReturnToClient(h) ==
    /\ pc[h] = "done"
    /\ pc' = [pc EXCEPT ![h] = "idle"]
    /\ prev' = [req |-> req[h], resp |-> resp[h], products |-> products]
    /\ req' = [req EXCEPT ![h] = NoRequest]
    /\ local' = [local EXCEPT ![h] = NoLocal]
    /\ resp' = [resp EXCEPT ![h] = NoResponse]
    /\ obs' = [obs EXCEPT ![h] = NoObs]
    /\ UNCHANGED <<products, mu, amap, committed>>

----------------------------------------------------------------------------
(* Requests the clients send *)

\* two candidates for id k that differ in every field but the id
BodyA(k) == JObject(JNum(k), JStr(MkStr("a", 1)), JStr(MkStr("m", 1)), JNum(1), JNum(0), JNum(1))
BodyB(k) == JObject(JNum(k), JStr(MkStr("b", 2)), JStr(MkStr("n", 2)), JNum(2), JNum(5), JNum(2))

\* BodyA(1) with one rule broken each
BrokenBodies ==
    { JObject(JNum(0), JStr(MkStr("a", 1)), JStr(MkStr("m", 1)), JNum(1), JNum(0), JNum(1)),
      JObject(JNum(1), JStr(<<>>), JStr(MkStr("m", 1)), JNum(1), JNum(0), JNum(1)),
      JObject(JNum(1), JStr(MkStr("a", 1)), JStr(<<>>), JNum(1), JNum(0), JNum(1)),
      JObject(JNum(1), JStr(MkStr("a", 1)), JStr(MkStr("m", 1)), JNum(0), JNum(0), JNum(1)),
      JObject(JNum(1), JStr(MkStr("a", 1)), JStr(MkStr("m", 1)), JNum(1), JNum(-1), JNum(1)),
      JObject(JNum(1), JStr(MkStr("a", 1)), JStr(MkStr("m", 1)), JNum(1), JNum(0), JNum(0)),
      Malformed }

\* what the one remembering client sends
ClientBodies == {BodyA(k) : k \in 1..MaxId} \cup {BodyB(k) : k \in 1..MaxId} \cup BrokenBodies

ClientPaths == {Itoa(i) : i \in 0..MaxId} \cup {<<"x">>}

\* what the concurrent handlers are sent: two ids, two candidates for the first
\* and one for the second, a candidate that breaks a field rule, a body that
\* does not decode, and a path id below 1
Bodies ==
    { BodyA(1), BodyB(1), BodyA(2),
      JObject(JNum(1), JStr(MkStr("b", 2)), JStr(MkStr("n", 2)), JNum(2), JNum(-1), JNum(2)),
      Malformed }

Paths == {<<"0">>, <<"1">>, <<"2">>}

\* every combination of the field values at and around the limits of the rules
SkuInputs == {MkStr("s", n) : n \in {0, 1, MaxSkuLen, MaxSkuLen + 1}}
ManufacturerInputs == {MkStr("m", n) : n \in {0, 1, MaxManufacturerLen, MaxManufacturerLen + 1}}

GridBodies ==
    { JObject(JNum(id), JStr(sku), JStr(man), JNum(cat), JNum(w), JNum(o)) :
        id \in 0..MaxId, sku \in SkuInputs, man \in ManufacturerInputs,
        cat \in {0, 1}, w \in {-1, 0}, o \in {0, 1} }

\* objects with members missing or of the wrong JSON type
OddBodies ==
    { Malformed,
      JObject(JAbsent, JAbsent, JAbsent, JAbsent, JAbsent, JAbsent),
      JObject(JNum(1), JStr(MkStr("a", 1)), JStr(MkStr("m", 1)), JNum(1), JAbsent, JNum(1)),
      JObject(JNum(1), JAbsent, JStr(MkStr("m", 1)), JNum(1), JNum(0), JNum(1)),
      JObject(JNum(1), JNum(7), JStr(MkStr("m", 1)), JNum(1), JNum(0), JNum(1)),
      JObject(JNum(1), JStr(MkStr("a", 1)), JStr(MkStr("m", 1)), JNum(1), JStr(MkStr("9", 1)), JNum(1)),
      JObject(JStr(MkStr("1", 1)), JStr(MkStr("a", 1)), JStr(MkStr("m", 1)), JNum(1), JNum(0), JNum(1)) }

AllBodies == GridBodies \cup OddBodies \cup {BodyB(k) : k \in 1..MaxId}

AllPaths ==
    {Itoa(i) : i \in -1..MaxId} \cup
    {<<"x">>, <<"+", "1">>, <<"0", "1">>, <<"1", "x">>, <<"-">>, <<"-", "0">>, <<"-", "5">>}

----------------------------------------------------------------------------
(* Specifications *)

\* NumProcs handlers run concurrently, each serving one request after another
Next ==
    \E h \in Procs :
        \/ \E path \in Paths : GetBegin(h, path)
        \/ RLock(h)
        \/ Lookup(h)
        \/ RUnlock(h)
        \/ GetRespond(h)
        \/ \E path \in Paths : PutBegin(h, path)
        \/ \E body \in Bodies : PutBind(h, body)
        \/ Lock(h)
        \/ LockAcquire(h)
        \/ Store(h)
        \/ Unlock(h)
        \/ PutRespond(h)
        \/ Return(h)

Spec == Init /\ [][Next]_vars

LiveBodies == {BodyA(1), Malformed}

LivePaths == {<<"0">>, <<"1">>}

\* The concurrent handlers under the scheduling Go gives them. A goroutine that can
\* run does run (weak fairness of every step of a handler that has begun).
\* Lock() contends for the inner sync.Mutex, which hands itself to a waiter
\* that has waited long (starvation mode), so a handler that finds the mutex
\* free again and again gets it (strong fairness of Lock). No fairness is
\* asked of the clients: no new request need ever arrive.
Fairness ==
    \A h \in Procs :
        /\ WF_vars(RLock(h))
        /\ WF_vars(Lookup(h))
        /\ WF_vars(RUnlock(h))
        /\ WF_vars(GetRespond(h))
        /\ WF_vars(\E body \in LiveBodies : PutBind(h, body))
        /\ SF_vars(Lock(h))
        /\ WF_vars(LockAcquire(h))
        /\ WF_vars(Store(h))
        /\ WF_vars(Unlock(h))
        /\ WF_vars(PutRespond(h))

\* Waiting does not depend on what is stored: one id, one candidate, a body
\* that does not decode and a path id below 1 are all that is sent here.
NextLive ==
    \E h \in Procs :
        \/ \E path \in LivePaths : GetBegin(h, path)
        \/ RLock(h)
        \/ Lookup(h)
        \/ RUnlock(h)
        \/ GetRespond(h)
        \/ \E path \in LivePaths : PutBegin(h, path)
        \/ \E body \in LiveBodies : PutBind(h, body)
        \/ Lock(h)
        \/ LockAcquire(h)
        \/ Store(h)
        \/ Unlock(h)
        \/ PutRespond(h)
        \/ Return(h)

SpecFair == Init /\ [][NextLive]_vars /\ Fairness

\* one client sends one request after another and remembers the last exchange
NextClient ==
    \/ \E path \in ClientPaths : GetBegin(1, path)
    \/ RLock(1)
    \/ Lookup(1)
    \/ RUnlock(1)
    \/ GetRespond(1)
    \/ \E path \in ClientPaths : PutBegin(1, path)
    \/ \E body \in ClientBodies : PutBind(1, body)
    \/ Lock(1)
    \/ LockAcquire(1)
    \/ Store(1)
    \/ Unlock(1)
    \/ PutRespond(1)
    \/ ReturnToClient(1)

SpecClient == Init /\ [][NextClient]_vars

\* one request, of any path and body, against a registry some Puts have filled
InitRequest ==
    /\ products \in {EmptyMap, MapStore(EmptyMap, 1, Candidate(BodyA(1))),
                     MapStore(MapStore(EmptyMap, 1, Candidate(BodyB(1))), MaxId, Candidate(BodyA(MaxId)))}
    /\ mu = Unlocked
    /\ pc = [h \in Procs |-> "idle"]
    /\ req = [h \in Procs |-> NoRequest]
    /\ local = [h \in Procs |-> NoLocal]
    /\ resp = [h \in Procs |-> NoResponse]
    /\ obs = [h \in Procs |-> NoObs]
    /\ amap = products
    /\ committed = {<<k, products[k]>> : k \in DOMAIN products}
    /\ prev = [req |-> NoRequest, resp |-> NoResponse, products |-> products]

NextRequest ==
    \/ \E path \in AllPaths : GetBegin(1, path)
    \/ RLock(1)
    \/ Lookup(1)
    \/ RUnlock(1)
    \/ GetRespond(1)
    \/ \E path \in AllPaths : PutBegin(1, path)
    \/ \E body \in AllBodies : PutBind(1, body)
    \/ Lock(1)
    \/ LockAcquire(1)
    \/ Store(1)
    \/ Unlock(1)
    \/ PutRespond(1)

SpecRequest == InitRequest /\ [][NextRequest]_vars

----------------------------------------------------------------------------
(* Properties *)

\* the six field constraints of the data model
SatisfiesFieldConstraints(p) ==
    /\ p.ProductID >= 1
    /\ Len(p.SKU) >= 1 /\ Len(p.SKU) <= 100
    /\ Len(p.Manufacturer) >= 1 /\ Len(p.Manufacturer) <= 200
    /\ p.CategoryID >= 1
    /\ p.Weight >= 0
    /\ p.SomeOtherID >= 1

\* the integer a path parameter spells, when it spells one that is at least 1
PathIsPositive(path) == ~Atoi(path).err /\ Atoi(path).val >= 1
PathId(path) == Atoi(path).val

\* handler h has finished a request of kind op and written its response
Finished(h, op) == pc[h] = "done" /\ req[h].op = op

IsInvalidInput(r) == r.status = 400 /\ r.error = "INVALID_INPUT" /\ r.payload = NoPayload
IsNotFound(r) == r.status = 404 /\ r.error = "NOT_FOUND" /\ r.payload = NoPayload
IsNoContent(r) == r.status = 204 /\ r.error = "" /\ r.details = <<>> /\ r.payload = NoPayload

\* the body is a JSON object each of whose members, when present, has the JSON
\* type of its field
Decodable(body) ==
    /\ body.kind = "object"
    /\ \A x \in {"ProductID", "CategoryID", "Weight", "SomeOtherID"} : body.f[x].t \in {"num", "absent"}
    /\ \A x \in {"SKU", "Manufacturer"} : body.f[x].t \in {"str", "absent"}

\* C1: in every reachable state every Product in the registry satisfies all six
\* field constraints; no partially valid record is ever held.
C1_StoredProductsValid ==
    \A k \in DOMAIN products : SatisfiesFieldConstraints(products[k])

\* both ids hold a record while a Put of a candidate with a negative weight has
\* just been rejected
C1_Witness ==
    /\ DOMAIN products = {1, 2}
    /\ \E h \in Procs :
         /\ Finished(h, "put")
         /\ req[h].body.kind = "object"
         /\ Candidate(req[h].body).Weight < 0
         /\ IsInvalidInput(resp[h])

\* C2: when Put(p.product_id, p) has succeeded and the same client's next
\* request is Get(p.product_id), with no Put committed in between, the Get
\* succeeds and returns a record equal to p in all six fields.
C2_PutThenGet ==
    ( /\ Finished(1, "get")
      /\ prev.req.op = "put"
      /\ prev.resp.status = 204
      /\ PathIsPositive(req[1].path)
      /\ PathId(req[1].path) = Candidate(prev.req.body).ProductID )
    => /\ resp[1].status = 200
       /\ resp[1].error = ""
       /\ \A x \in FieldNames : resp[1].payload[x] = Candidate(prev.req.body)[x]

\* the client has put the second candidate of id 1, whose weight is 5, and has
\* then got id 1
C2_Witness ==
    /\ Finished(1, "get")
    /\ prev.req = [op |-> "put", path |-> <<"1">>, body |-> BodyB(1)]
    /\ prev.resp.status = 204
    /\ req[1].path = <<"1">>
    /\ resp[1].status = 200
    /\ resp[1].payload.Weight = 5

\* C3: after Puts of p1 and then p2 have committed at one id, a Get of that id
\* returns exactly p2, the candidate committed last: every field is p2's.
C3_LastWriterWins ==
    \A h \in Procs :
        (Finished(h, "get") /\ obs[h].taken /\ obs[h].present /\ obs[h].seen # {obs[h].p})
        => /\ resp[h].status = 200
           /\ resp[h].error = ""
           /\ resp[h].payload = obs[h].p

\* a Get has returned the second candidate of id 1 after the first one, which
\* differs from it in every field but the id, had been committed there
C3_Witness ==
    \E h \in Procs :
        /\ Finished(h, "get")
        /\ obs[h].present
        /\ obs[h].p = Candidate(BodyB(1))
        /\ Candidate(BodyA(1)) \in obs[h].seen
        /\ resp[h].payload = Candidate(BodyB(1))
        /\ \A x \in FieldNames \ {"ProductID"} :
             Candidate(BodyA(1))[x] # resp[h].payload[x]

\* C4: what a Get finds at its lookup is either no entry, or one complete record
\* that is the full candidate of a Put committed at that id before, and that
\* satisfies the field constraints; never a mix of fields of different writes.
C4_GetObservesWholeWrite ==
    \A h \in Procs :
        obs[h].taken =>
            IF local[h].exists
            THEN /\ local[h].product \in obs[h].seen
                 /\ SatisfiesFieldConstraints(local[h].product)
            ELSE local[h].product = ZeroProduct

\* a Get has just looked up a record of id 1 while another handler's Put of a
\* different candidate for id 1 is past validation and waits for the guard
C4_Witness ==
    \E h \in Procs, g \in Procs :
        /\ h # g
        /\ pc[h] = "g_runlock"
        /\ local[h].exists
        /\ Cardinality(obs[h].seen) = 2
        /\ pc[g] = "p_lockwait"
        /\ local[g].productID = local[h].productID
        /\ local[g].p # local[h].product

\* C5: the guard is held by no one, or by one Put exclusively and nobody else, or
\* by Gets in shared mode and no Put; a Put's map assignment overlaps no other
\* Put's assignment and no Get's lookup.
C5_ReadersOrOneWriter ==
    /\ mu.writer # NoProc => mu.readers = {}
    /\ {h \in Procs : pc[h] \in {"p_store", "p_unlock"}} =
          (IF mu.writer = NoProc THEN {} ELSE {mu.writer})
    /\ {h \in Procs : pc[h] \in {"g_lookup", "g_runlock"}} = mu.readers
    /\ \A h \in Procs, g \in Procs :
         (h # g /\ pc[h] = "p_store") => pc[g] \notin {"p_store", "p_unlock", "g_lookup", "g_runlock"}

\* two Gets hold shared access at once
C5_Witness ==
    /\ Cardinality(mu.readers) >= 2
    /\ \A h \in mu.readers : pc[h] = "g_lookup"

\* handler h holds no part of the guard and waits for none
HoldsNoGuard(h) ==
    /\ mu.w # h
    /\ mu.writer # h
    /\ h \notin mu.readers
    /\ h \notin mu.rqueue

\* C6: a Get or a Put whose path id is below 1 or is no number returns
\* InvalidInput; from its first step on the handler is finished, the registry is
\* the one the request found, and the handler never holds the guard.
C6_BadPathIdRejected ==
    \A h \in Procs :
        (req[h].op # "none" /\ ~PathIsPositive(req[h].path))
        => /\ pc[h] = "done"
           /\ IsInvalidInput(resp[h])
           /\ resp[h].details = <<"Product ID must be a positive integer">>
           /\ products = prev.products
           /\ HoldsNoGuard(h)
           /\ req[h].body = NoBody

\* Put with the path id -5 has been rejected while the registry holds two records
C6_Witness ==
    /\ Finished(1, "put")
    /\ req[1].path = <<"-", "5">>
    /\ IsInvalidInput(resp[1])
    /\ Cardinality(DOMAIN products) = 2

\* C7: a Get of an id >= 1 at which no Put had committed before its lookup
\* returns NotFound, whatever was committed at other ids and whatever Puts at
\* the same id were rejected.
C7_NeverPutIsNotFound ==
    \A h \in Procs :
        (Finished(h, "get") /\ PathIsPositive(req[h].path) /\ obs[h].seen = {})
        => /\ obs[h].taken
           /\ IsNotFound(resp[h])

\* Get(2) has returned NotFound although id 1 holds a record and a Put at id 2
\* has been rejected
C7_Witness ==
    \E h \in Procs, g \in Procs :
        /\ Finished(h, "get") /\ PathId(req[h].path) = 2 /\ IsNotFound(resp[h])
        /\ 1 \in DOMAIN products
        /\ Finished(g, "put") /\ PathId(req[g].path) = 2 /\ IsInvalidInput(resp[g])

\* the request of handler h is a Put with a path id >= 1 and a body that passes
\* all six field rules but names another product_id
IsMismatchedPut(r) ==
    /\ r.op = "put"
    /\ PathIsPositive(r.path)
    /\ Decodable(r.body)
    /\ SatisfiesFieldConstraints(Candidate(r.body))
    /\ Candidate(r.body).ProductID # PathId(r.path)

CheckFails(i, path, c) ==
    CASE i = 1 -> ~PathIsPositive(path)
      [] i = 2 -> c.ProductID < 1
      [] i = 3 -> Len(c.SKU) < 1 \/ Len(c.SKU) > 100
      [] i = 4 -> Len(c.Manufacturer) < 1 \/ Len(c.Manufacturer) > 200
      [] i = 5 -> c.CategoryID < 1
      [] i = 6 -> c.Weight < 0
      [] i = 7 -> c.SomeOtherID < 1
      [] i = 8 -> c.ProductID # PathId(path)

CheckMessage ==
    << "Product ID must be a positive integer",
       "product_id must be >= 1",
       "sku must be between 1 and 100 characters",
       "manufacturer must be between 1 and 200 characters",
       "category_id must be >= 1",
       "weight must be >= 0",
       "some_other_id must be >= 1",
       "Path product ID does not match body product_id" >>

FailingChecks(r) == {i \in 1..8 : CheckFails(i, r.path, Candidate(r.body))}

FirstFailingCheck(r) == CHOOSE i \in FailingChecks(r) : \A j \in FailingChecks(r) : i <= j

\* C9: a rejected Put reports exactly one failure, the first failing check of
\* the sequence path id, product_id, sku, manufacturer, category_id, weight,
\* some_other_id, path/body mismatch (for a body that decodes, or a bad path id).
C9_FirstFailureReported ==
    ( /\ Finished(1, "put")
      /\ resp[1].status # 204
      /\ (~PathIsPositive(req[1].path) \/ Decodable(req[1].body)) )
    => /\ FailingChecks(req[1]) # {}
       /\ IsInvalidInput(resp[1])
       /\ resp[1].details = <<CheckMessage[FirstFailingCheck(req[1])]>>

\* a Put whose candidate breaks the sku rule and the manufacturer rule and
\* mismatches the path id has been rejected for the sku
C9_Witness ==
    /\ Finished(1, "put")
    /\ FailingChecks(req[1]) = {3, 4, 8}
    /\ resp[1].details = <<"sku must be between 1 and 100 characters">>

\* the request meets the contract of Put
IsAcceptablePut(r) ==
    /\ PathIsPositive(r.path)
    /\ Decodable(r.body)
    /\ SatisfiesFieldConstraints(Candidate(r.body))
    /\ Candidate(r.body).ProductID = PathId(r.path)

\* C10: a Put succeeds, with the no-content result and the entry at the id equal
\* to the body afterwards, exactly for a path id >= 1 and a decodable body with
\* that product_id whose fields satisfy the six rules, limits included.
C10_PutAcceptsExactlyContract ==
    Finished(1, "put") =>
        IF IsAcceptablePut(req[1])
        THEN /\ IsNoContent(resp[1])
             /\ PathId(req[1].path) \in DOMAIN products
             /\ products[PathId(req[1].path)] = Candidate(req[1].body)
        ELSE /\ resp[1].status # 204
             /\ products = prev.products

\* Put(1) of a candidate at the limits (sku of 100, manufacturer of 200
\* characters, weight 0, the ids 1) has succeeded over an earlier record
C10_Witness ==
    /\ Finished(1, "put")
    /\ IsNoContent(resp[1])
    /\ 1 \in DOMAIN products
    /\ products[1] = Product(1, MkStr("s", 100), MkStr("m", 200), 1, 0, 1)
    /\ 1 \in DOMAIN prev.products
    /\ prev.products[1] # products[1]

\* handler h is a Put that has passed validation and has not yet released the guard
PutInFlight(h) == pc[h] \in {"p_lock", "p_lockwait", "p_store", "p_unlock"}

\* C11: when several Puts to one id have all passed validation and have all
\* completed, the entry at the id is in full the candidate of the Put that held
\* exclusive access last (amap records it at the assignment), a candidate some
\* Put committed and not a mix, and all of them got the same success result.
C11_ConcurrentPutsLastWins ==
    \A h \in Procs, g \in Procs :
        ( /\ h # g
          /\ Finished(h, "put") /\ Finished(g, "put")
          /\ IsAcceptablePut(req[h]) /\ IsAcceptablePut(req[g])
          /\ PathId(req[h].path) = PathId(req[g].path)
          /\ \A x \in Procs : PutInFlight(x) => local[x].productID # PathId(req[h].path) )
        => /\ PathId(req[h].path) \in DOMAIN products
           /\ products[PathId(req[h].path)] = amap[PathId(req[h].path)]
           /\ <<PathId(req[h].path), products[PathId(req[h].path)]>> \in committed
           /\ IsNoContent(resp[h])
           /\ resp[g] = resp[h]

\* two handlers have each completed a Put for id 1, of different candidates,
\* and the entry is the candidate of one of them
C11_Witness ==
    \E h \in Procs, g \in Procs :
        /\ Finished(h, "put") /\ Finished(g, "put")
        /\ req[h].body = BodyA(1) /\ req[g].body = BodyB(1)
        /\ req[h].path = <<"1">> /\ req[g].path = <<"1">>
        /\ IsNoContent(resp[h]) /\ IsNoContent(resp[g])
        /\ products[1] = Candidate(BodyA(1))

\* C12: a Get returns what was stored at its id when it held shared access; a
\* Put to the id that commits after the Get released shared access and before
\* its response is written does not change what the Get returns.
C12_GetReturnsValueAtLookup ==
    \A h \in Procs :
        /\ (pc[h] \in {"g_runlock", "g_respond"} \/ (Finished(h, "get") /\ obs[h].taken))
           => /\ local[h].exists = obs[h].present
              /\ local[h].product = obs[h].p
        /\ (Finished(h, "get") /\ obs[h].taken)
           => IF obs[h].present
              THEN resp[h].status = 200 /\ resp[h].payload = obs[h].p
              ELSE IsNotFound(resp[h])

\* a Get has answered with the first candidate of id 1 while the entry is
\* already the second one, whose Put has not yet written its response
C12_Witness ==
    \E h \in Procs, g \in Procs :
        /\ Finished(h, "get")
        /\ resp[h].payload = Candidate(BodyA(1))
        /\ pc[g] = "p_unlock"
        /\ products[1] = Candidate(BodyB(1))

\* C13: under fair scheduling every Get and every Put that has started
\* completes with a response, whatever the other handlers do, and a Put that
\* has passed validation goes on to commit.
C13_EveryRequestCompletes ==
    \A h \in Procs :
        /\ (pc[h] # "idle") ~> (pc[h] = "done")
        /\ (pc[h] = "p_lock") ~> (pc[h] = "p_unlock")

\* a Get waits in RLock() for the Put that holds exclusive access
C13_Witness ==
    \E h \in Procs, g \in Procs :
        /\ pc[h] = "g_rblocked"
        /\ h \in mu.rqueue
        /\ pc[g] = "p_store"
        /\ mu.writer = g

\* C14: the set of ids in the registry never shrinks: an id that has an entry
\* has one in every later state.
C14_IdsNeverRemoved ==
    [][DOMAIN products \subseteq DOMAIN products']_vars

\* both ids hold a record, the one of id 1 written over an earlier one
C14_Witness ==
    /\ DOMAIN products = {1, 2}
    /\ <<1, Candidate(BodyA(1))>> \in committed
    /\ <<1, Candidate(BodyB(1))>> \in committed

\* C15: the map changes only in the commit step of a Put that passed every
\* validation step; every step of a Get, and of a Put rejected for its path id,
\* its body, a field rule or a mismatch, leaves the map as it was.
C15_OnlyValidatedPutWrites ==
    [][ products' # products =>
          \E h \in Procs :
              /\ pc[h] = "p_store" /\ pc'[h] = "p_unlock"
              /\ IsAcceptablePut(req[h])
              /\ \A g \in Procs \ {h} : pc'[g] = pc[g] ]_vars

\* a Get that found nothing and a Put whose body did not decode have completed
\* at id 2, and id 2 has no entry while id 1 has one
C15_Witness ==
    \E h \in Procs, g \in Procs :
        /\ Finished(h, "get") /\ req[h].path = <<"2">> /\ IsNotFound(resp[h])
        /\ Finished(g, "put") /\ req[g].path = <<"2">> /\ req[g].body = Malformed
        /\ IsInvalidInput(resp[g])
        /\ DOMAIN products = {1}

\* C16 (as documented above addProductDetails): 204 on success, 400 if the
\* input is invalid, 404 if the path id and the body's product_id do not match.
C16_DocumentedStatusCodes ==
    Finished(1, "put") =>
        resp[1].status =
            IF IsAcceptablePut(req[1]) THEN 204
            ELSE IF IsMismatchedPut(req[1]) THEN 404
            ELSE 400

\* C17: a Put validates without the guard: path check, decoding, field rules
\* and the path/body comparison are over before Lock() is called, exclusive
\* access lasts for the map assignment alone, and a Put that is validating or
\* was rejected holds nothing that could block another handler.
C17_NoGuardDuringValidation ==
    \A h \in Procs :
        /\ (req[h].op = "put" /\ pc[h] \notin {"p_lockwait", "p_store", "p_unlock"})
           => HoldsNoGuard(h)
        /\ mu.writer = h => pc[h] \in {"p_store", "p_unlock"}
        /\ (req[h].op = "put" /\ pc[h] \in {"p_lock", "p_lockwait", "p_store", "p_unlock"})
           => IsAcceptablePut(req[h])
        /\ (req[h].op = "put" /\ ~IsAcceptablePut(req[h]))
           => pc[h] \in {"p_bind", "done"}

\* one Put is about to bind and validate its body while another handler holds
\* exclusive access
C17_Witness ==
    \E h \in Procs, g \in Procs :
        /\ pc[h] = "p_bind"
        /\ pc[g] = "p_store"
        /\ mu.writer = g

\* C18: every entry is stored under its own identifier, so a Get(k) that
\* succeeds returns a record whose product_id is k.
C18_KeyIsProductId ==
    /\ \A k \in DOMAIN products : products[k].ProductID = k
    /\ \A h \in Procs :
         (Finished(h, "get") /\ resp[h].status = 200)
         => resp[h].payload.ProductID = PathId(req[h].path)

\* Get(2) has succeeded and a Put at path 2 of a valid body for id 1 was rejected
C18_Witness ==
    \E h \in Procs, g \in Procs :
        /\ Finished(h, "get") /\ req[h].path = <<"2">> /\ resp[h].status = 200
        /\ Finished(g, "put") /\ req[g].path = <<"2">> /\ req[g].body = BodyA(1)
        /\ IsInvalidInput(resp[g])

\* C19: the commit of a Put at id k changes the entry at k only: every other
\* id has an entry after it exactly if it had one before, with the same contents.
C19_PutTouchesOneEntry ==
    [][ \A h \in Procs :
          (pc[h] = "p_store" /\ pc'[h] = "p_unlock")
          => \A j \in (DOMAIN products) \cup (DOMAIN products') :
                j # PathId(req[h].path)
                => /\ j \in DOMAIN products
                   /\ j \in DOMAIN products'
                   /\ products'[j] = products[j] ]_vars

\* a Put has just assigned the entry of id 2 while id 1 holds another record
C19_Witness ==
    \E h \in Procs :
        /\ pc[h] = "p_unlock"
        /\ local[h].productID = 2
        /\ DOMAIN products = {1, 2}
        /\ products[1] = Candidate(BodyB(1))
        /\ products[2] = Candidate(BodyA(2))

\* what a sequential map answers to a Get that finds entry o (o.present) or none
SequentialGet(r, o) ==
    IF ~PathIsPositive(r.path)
    THEN [status |-> 400, error |-> "INVALID_INPUT", payload |-> NoPayload]
    ELSE IF o.present THEN [status |-> 200, error |-> "", payload |-> o.p]
    ELSE [status |-> 404, error |-> "NOT_FOUND", payload |-> NoPayload]

\* what a sequential map answers to a Put
SequentialPut(r) ==
    IF IsAcceptablePut(r) THEN [status |-> 204, error |-> "", payload |-> NoPayload]
    ELSE [status |-> 400, error |-> "INVALID_INPUT", payload |-> NoPayload]

Outcome(r) == [status |-> r.status, error |-> r.error, payload |-> r.payload]

\* C20: the registry behind its lock is an atomic map. With the lookup as the
\* point where a Get takes effect and the assignment as the point where a Put
\* does, the map always equals the plain map that applies the accepted Puts in
\* the order of those points, and every response is the one that plain map
\* gives at the request's point.
C20_RefinesAtomicMap ==
    /\ products = amap
    /\ \A h \in Procs :
         /\ Finished(h, "get") => Outcome(resp[h]) = SequentialGet(req[h], obs[h])
         /\ Finished(h, "put") => Outcome(resp[h]) = SequentialPut(req[h])
         /\ (Finished(h, "put") /\ resp[h].status = 204)
            => <<PathId(req[h].path), Candidate(req[h].body)>> \in committed
         /\ (Finished(h, "get") /\ PathIsPositive(req[h].path)) => obs[h].taken
         /\ pc[h] \in {"p_unlock", "p_respond"}
            => <<PathId(req[h].path), Candidate(req[h].body)>> \in committed
         /\ pc[h] \in {"p_bind", "p_lock", "p_lockwait"} => resp[h] = NoResponse

\* a Get answered with the first candidate of id 1, read before a concurrent
\* Put replaced it, while the map already holds the second
C20_Witness ==
    \E h \in Procs, g \in Procs :
        /\ Finished(h, "get") /\ resp[h].status = 200
        /\ resp[h].payload = Candidate(BodyA(1))
        /\ Finished(g, "put") /\ req[g].body = BodyB(1) /\ resp[g].status = 204
        /\ amap[1] = Candidate(BodyB(1))

====
